---- MODULE Spec2Model ----
(***************************************************************************)
(* Model of the domain checker in src/src/main.rs: main reads the input    *)
(* file line by line and spawns one task per decoded line; each task       *)
(* acquires a semaphore permit, runs check_domain (HTTP probe, then HTTPS  *)
(* probe, then the dead file), and writes through the two lazily created,  *)
(* mutex-guarded buffered files LIVE_FILE and DEAD_FILE.                   *)
(*                                                                         *)
(* Text is a sequence of one-character strings, so that trim, format!,     *)
(* replace and split are computed character by character.                  *)
(***************************************************************************)
EXTENDS Naturals, Sequences, FiniteSets

\* ---------------------------------------------------------------- bounds
\* Longest input file, in lines.
MaxLines == 3

\* Semaphore::new(MAX_CONCURRENT_REQUESTS); 100 in the source, scaled down so
\* that more tasks than permits exist.
MAX_CONCURRENT_REQUESTS == 2

\* ------------------------------------------------------------------ text
NL == "\n"
SP == " "
SLASH == "/"

HTTP_PREFIX == <<"h", "t", "t", "p", ":", "/", "/">>
HTTPS_PREFIX == <<"h", "t", "t", "p", "s", ":", "/", "/">>

\* One item of BufRead::lines(): Ok(text) or Err(_) (a line that is not UTF-8).
OkLine(text) == [ok |-> TRUE, text |-> text]
ErrLine == [ok |-> FALSE, text |-> <<>>]

\* The lines input files are made of: a host with a path and white space
\* around it, a line that holds the text "http://" after its first character,
\* a line of white space only, and a line that does not decode.
HostLine == OkLine(<<" ", "a", "/", "b", " ">>)
SchemeLine == OkLine(<<"a", "h", "t", "t", "p", ":", "/", "/", "b">>)
BlankLine == OkLine(<<" ">>)

MasterFile ==
    <<HostLine, SchemeLine, BlankLine, ErrLine, HostLine, HostLine, HostLine, ErrLine>>

\* The n lines of the master file from line k on, read cyclically.
Window(k, n) == [i \in 1..n |-> MasterFile[((k + i - 2) % Len(MasterFile)) + 1]]

\* The input files checked: every run of up to MaxLines consecutive lines of
\* the master file.
InputFiles == {Window(k, n) : k \in 1..Len(MasterFile), n \in 0..MaxLines}

RECURSIVE TrimStart(_)
TrimStart(s) ==
    IF s = <<>> THEN s
    ELSE IF Head(s) = SP THEN TrimStart(Tail(s)) ELSE s

RECURSIVE TrimEnd(_)
TrimEnd(s) ==
    IF s = <<>> THEN s
    ELSE IF s[Len(s)] = SP THEN TrimEnd(SubSeq(s, 1, Len(s) - 1)) ELSE s

\* Mutant of Trim: only leading white space is removed.
TrimLeftOnly(s) == TrimStart(s)

\* str::trim
Trim(s) == TrimEnd(TrimStart(s))

StartsWith(s, pat) == Len(s) >= Len(pat) /\ SubSeq(s, 1, Len(pat)) = pat

\* str::replace(pat, ""): every non-overlapping match, left to right.
RECURSIVE ReplaceAll(_, _)
ReplaceAll(s, pat) ==
    IF Len(s) < Len(pat) THEN s
    ELSE IF StartsWith(s, pat)
         THEN ReplaceAll(SubSeq(s, Len(pat) + 1, Len(s)), pat)
         ELSE <<Head(s)>> \o ReplaceAll(Tail(s), pat)

\* str::split('/').next(): the text before the first '/'.
RECURSIVE SplitFirst(_)
SplitFirst(s) ==
    IF s = <<>> THEN s
    ELSE IF Head(s) = SLASH THEN <<>>
         ELSE <<Head(s)>> \o SplitFirst(Tail(s))

extract_domain(url) == SplitFirst(ReplaceAll(ReplaceAll(url, HTTP_PREFIX), HTTPS_PREFIX))

http_url(domain) == HTTP_PREFIX \o domain
https_url(domain) == HTTPS_PREFIX \o domain

UrlOf(scheme, domain) == IF scheme = "http" THEN http_url(domain) ELSE https_url(domain)

ACTIVE == <<" ", "-", " ", "A", "c", "t", "i", "v", "e">>
FAILED == <<" ", "-", " ", "F", "a", "i", "l", "e", "d">>

format_success(url, status, verbose) ==
    IF verbose THEN <<"ok", " ">> \o url \o ACTIVE \o <<" (Status: ", status, ")">>
    ELSE <<"ok", " ">> \o url \o ACTIVE

format_failure(domain, verbose) ==
    IF verbose THEN <<"x", " ">> \o domain \o FAILED \o <<" (Tried both HTTP & HTTPS)">>
    ELSE <<"x", " ">> \o domain \o FAILED

\* ----------------------------------------------------------------- state
VARIABLES
    input,      \* the lines of the input file
    verbose,    \* the --verbose flag
    mainPc,     \* where main is: "start", "read", "join", "completed", "aborted"
    nread,      \* lines of the input consumed by the for loop of main
    joined,     \* handles awaited by the second for loop of main
    handles,    \* the spawned tasks, in spawn order (one record each)
    permits,    \* free permits of the semaphore
    sink,       \* LIVE_FILE and DEAD_FILE: lazy state, mutex holder, BufWriter buffer
    disk,       \* content of live.txt and dead.txt on disk
    log         \* per sink, the write_to_file calls that returned: <<task, text>>

vars == <<input, verbose, mainPc, nread, joined, handles, permits, sink, disk, log>>

Sinks == {"live", "dead"}

\* What live.txt and dead.txt hold before the run: one line of an earlier run.
STALE == <<"o", "l", "d", NL>>

Tasks == 1..Len(handles)

\* The state main starts in, whatever the input file and the flag.
Start ==
    /\ mainPc = "start"
    /\ nread = 0
    /\ joined = 0
    /\ handles = <<>>
    /\ permits = MAX_CONCURRENT_REQUESTS
    /\ sink = [s \in Sinks |-> [state |-> "uninit", holder |-> 0, buf |-> <<>>]]
    /\ disk = [s \in Sinks |-> STALE]
    /\ log = [s \in Sinks |-> <<>>]

Init ==
    /\ input \in InputFiles
    /\ verbose \in BOOLEAN
    /\ Start

\* -------------------------------------------------------------- helpers
Terminal == {"done", "panicked"}

\* A task holds its permit from semaphore.acquire() until _permit is dropped.
Holding == {"probe", "lock", "write", "flush", "ret"}

\* tokio::spawn(async move { ... }) before its first poll; src is the number
\* of the input line the task was spawned for, held the number of permits the
\* task owns (_permit).
NewTask(src, domain) ==
    [ src    |-> src,
      domain |-> domain,
      pc     |-> "acquire",
      held   |-> 0,
      scheme |-> "http",
      probes |-> <<>>,
      sel    |-> "none",
      text   |-> <<>>,
      out    |-> <<>> ]

\* What timeout(timeout_duration, client.head(url).send()) can resolve to: a
\* response with a 2xx status, a response with another status, a connection
\* error, or the timeout. A URL with no host is refused by the client before
\* anything is sent (Url::parse: empty host), which is the error case.
HasHost(url) == url \notin {HTTP_PREFIX, HTTPS_PREFIX}
Outcomes(url) == IF HasHost(url) THEN {"200", "404", "error", "timeout"} ELSE {"error"}

\* Ok(Ok(response)) if response.status().is_success()
is_success(outcome) == outcome = "200"

SetTask(t, r) == [handles EXCEPT ![t] = r]

\* ------------------------------------------------------------------ main
\* File::open(filename)? and Client::builder().build()? succeeded.
MainStart ==
    /\ mainPc = "start"
    /\ mainPc' = "read"
    /\ UNCHANGED <<input, verbose, nread, joined, handles, permits, sink, disk, log>>

\* File::open(filename)? returned the error: main returns Err.
MainOpenFail ==
    /\ mainPc = "start"
    /\ mainPc' = "aborted"
    /\ UNCHANGED <<input, verbose, nread, joined, handles, permits, sink, disk, log>>

\* Mutant of MainRead: main takes the permit itself before it spawns.
MainReadWaitsForPermit ==
    /\ mainPc = "read"
    /\ nread < Len(input)
    /\ permits > 0
    /\ nread' = nread + 1
    /\ LET line == input[nread + 1] IN
         IF line.ok
         THEN handles' = Append(handles, NewTask(nread + 1, Trim(line.text)))
         ELSE handles' = handles
    /\ UNCHANGED <<input, verbose, mainPc, joined, permits, sink, disk, log>>

\* One iteration of `for line in reader.lines()`.
MainRead ==
    /\ mainPc = "read"
    /\ nread < Len(input)
    /\ nread' = nread + 1
    /\ LET line == input[nread + 1] IN
         IF line.ok
         THEN handles' = Append(handles, NewTask(nread + 1, Trim(line.text)))
         ELSE handles' = handles
    /\ UNCHANGED <<input, verbose, mainPc, joined, permits, sink, disk, log>>

\* reader.lines() is exhausted: on to `for handle in handles`.
MainLoopEnd ==
    /\ mainPc = "read"
    /\ nread = Len(input)
    /\ mainPc' = "join"
    /\ UNCHANGED <<input, verbose, nread, joined, handles, permits, sink, disk, log>>

\* Mutant of MainJoin: the handle is dropped without being awaited.
MainJoinNoWait ==
    /\ mainPc = "join"
    /\ joined < Len(handles)
    /\ joined' = joined + 1
    /\ UNCHANGED <<input, verbose, mainPc, nread, handles, permits, sink, disk, log>>

\* Mutant of MainJoin: `handle.await?`, the JoinError of a panicked task
\* makes main return Err.
MainJoinPropagate ==
    /\ mainPc = "join"
    /\ joined < Len(handles)
    /\ handles[joined + 1].pc \in Terminal
    /\ IF handles[joined + 1].pc = "panicked"
       THEN mainPc' = "aborted" /\ joined' = joined
       ELSE mainPc' = mainPc /\ joined' = joined + 1
    /\ UNCHANGED <<input, verbose, nread, handles, permits, sink, disk, log>>

\* let _ = handle.await; returns when the task has ended, Ok or Err(JoinError).
MainJoin ==
    /\ mainPc = "join"
    /\ joined < Len(handles)
    /\ handles[joined + 1].pc \in Terminal
    /\ joined' = joined + 1
    /\ UNCHANGED <<input, verbose, mainPc, nread, handles, permits, sink, disk, log>>

\* println!("Domain check completed."); Ok(())
MainComplete ==
    /\ mainPc = "join"
    /\ joined = Len(handles)
    /\ mainPc' = "completed"
    /\ UNCHANGED <<input, verbose, nread, joined, handles, permits, sink, disk, log>>

\* ----------------------------------------------------------------- tasks
\* Mutant of Acquire: a permit is handed out when none is free.
AcquireNoLimit(t) ==
    /\ handles[t].pc = "acquire"
    /\ permits' = IF permits > 0 THEN permits - 1 ELSE 0
    /\ handles' = SetTask(t, [handles[t] EXCEPT !.pc = "probe", !.held = @ + 1, !.scheme = "http"])
    /\ UNCHANGED <<input, verbose, mainPc, nread, joined, sink, disk, log>>

\* semaphore.acquire().await returns a permit; check_domain begins and
\* test_url sends the HEAD request for http_url.
Acquire(t) ==
    /\ handles[t].pc = "acquire"
    /\ permits > 0
    /\ permits' = permits - 1
    /\ handles' = SetTask(t, [handles[t] EXCEPT !.pc = "probe", !.held = @ + 1, !.scheme = "http"])
    /\ UNCHANGED <<input, verbose, mainPc, nread, joined, sink, disk, log>>

\* Mutant of check_domain: a domain with no successful probe is written to
\* the live file.
check_domain_WrongFile(task, ok) ==
    LET url == UrlOf(task.scheme, task.domain)
        done == [task EXCEPT !.probes = Append(@, [scheme |-> task.scheme, ok |-> ok])]
    IN  IF ok
        THEN [done EXCEPT !.pc = "lock", !.sel = "live", !.text = extract_domain(url)]
        ELSE IF task.scheme = "http"
             THEN [done EXCEPT !.pc = "probe", !.scheme = "https"]
             ELSE [done EXCEPT !.pc = "lock", !.sel = "live", !.text = task.domain]

\* check_domain after test_url returned for `scheme`: where the task goes and
\* what it is about to write.
check_domain(task, ok) ==
    LET url == UrlOf(task.scheme, task.domain)
        done == [task EXCEPT !.probes = Append(@, [scheme |-> task.scheme, ok |-> ok])]
    IN  IF ok
        THEN \* test_url: extract_domain, write_to_file(&LIVE_FILE, &domain)
             [done EXCEPT !.pc = "lock", !.sel = "live", !.text = extract_domain(url)]
        ELSE IF task.scheme = "http"
             THEN \* test_url(client, &https_url, ...)
                  [done EXCEPT !.pc = "probe", !.scheme = "https"]
             ELSE \* write_to_file(&DEAD_FILE, domain)
                  [done EXCEPT !.pc = "lock", !.sel = "dead", !.text = task.domain]

\* The request of test_url resolves.
test_url(t) ==
    /\ handles[t].pc = "probe"
    /\ \E outcome \in Outcomes(UrlOf(handles[t].scheme, handles[t].domain)) :
         handles' = SetTask(t, check_domain(handles[t], is_success(outcome)))
    /\ UNCHANGED <<input, verbose, mainPc, nread, joined, permits, sink, disk, log>>

\* Mutant of Panic: the permit of a panicking task is never released.
PanicKeepsPermit(t) ==
    /\ handles' = SetTask(t, [handles[t] EXCEPT !.pc = "panicked"])
    /\ permits' = permits

\* The task unwinds: _permit is dropped, the JoinHandle resolves to Err.
Panic(t) ==
    /\ handles' = SetTask(t, [handles[t] EXCEPT !.pc = "panicked", !.held = 0])
    /\ permits' = permits + handles[t].held

\* First dereference of the lazy_static: File::create(..).unwrap() creates or
\* truncates the file; the task then takes the (new, free) mutex.
LazyCreate(t) ==
    LET s == handles[t].sel IN
    /\ handles[t].pc = "lock"
    /\ sink[s].state = "uninit"
    /\ sink' = [sink EXCEPT ![s] = [state |-> "open", holder |-> t, buf |-> <<>>]]
    /\ disk' = [disk EXCEPT ![s] = <<>>]
    /\ handles' = SetTask(t, [handles[t] EXCEPT !.pc = "write"])
    /\ UNCHANGED <<input, verbose, mainPc, nread, joined, permits, log>>

\* First dereference of the lazy_static when File::create fails: unwrap panics
\* inside the initializer, which poisons the Once of the static.
LazyCreateFail(t) ==
    LET s == handles[t].sel IN
    /\ handles[t].pc = "lock"
    /\ sink[s].state = "uninit"
    /\ sink' = [sink EXCEPT ![s].state = "poisoned"]
    /\ Panic(t)
    /\ UNCHANGED <<input, verbose, mainPc, nread, joined, disk, log>>

\* Dereference of a lazy_static whose initializer panicked before: panics.
LazyPoisoned(t) ==
    LET s == handles[t].sel IN
    /\ handles[t].pc = "lock"
    /\ sink[s].state = "poisoned"
    /\ Panic(t)
    /\ UNCHANGED <<input, verbose, mainPc, nread, joined, sink, disk, log>>

\* Mutant of Lock: the lock is granted while another task holds it.
LockNoExclusion(t) ==
    LET s == handles[t].sel IN
    /\ handles[t].pc = "lock"
    /\ sink[s].state = "open"
    /\ sink' = [sink EXCEPT ![s].holder = t]
    /\ handles' = SetTask(t, [handles[t] EXCEPT !.pc = "write"])
    /\ UNCHANGED <<input, verbose, mainPc, nread, joined, permits, disk, log>>

\* Mutant of Lock: one lock guards both files.
LockBothFiles(t) ==
    LET s == handles[t].sel IN
    /\ handles[t].pc = "lock"
    /\ sink[s].state = "open"
    /\ \A o \in Sinks : sink[o].holder = 0
    /\ sink' = [sink EXCEPT ![s].holder = t]
    /\ handles' = SetTask(t, [handles[t] EXCEPT !.pc = "write"])
    /\ UNCHANGED <<input, verbose, mainPc, nread, joined, permits, disk, log>>

\* write_to_file: file.lock().await on an initialized sink.
Lock(t) ==
    LET s == handles[t].sel IN
    /\ handles[t].pc = "lock"
    /\ sink[s].state = "open"
    /\ sink[s].holder = 0
    /\ sink' = [sink EXCEPT ![s].holder = t]
    /\ handles' = SetTask(t, [handles[t] EXCEPT !.pc = "write"])
    /\ UNCHANGED <<input, verbose, mainPc, nread, joined, permits, disk, log>>

\* write_to_file: writeln! hands the text to the BufWriter.
Writeln(t) ==
    LET s == handles[t].sel IN
    /\ handles[t].pc = "write"
    /\ sink' = [sink EXCEPT ![s].buf = @ \o handles[t].text]
    /\ handles' = SetTask(t, [handles[t] EXCEPT !.pc = "flush"])
    /\ UNCHANGED <<input, verbose, mainPc, nread, joined, permits, disk, log>>

\* write_to_file: writeln! hands over the line terminator, file.flush() moves
\* the buffer to the file, and the MutexGuard is dropped on return.
Flush(t) ==
    LET s == handles[t].sel IN
    /\ handles[t].pc = "flush"
    /\ disk' = [disk EXCEPT ![s] = @ \o sink[s].buf \o <<NL>>]
    /\ sink' = [sink EXCEPT ![s].buf = <<>>, ![s].holder = 0]
    /\ log' = [log EXCEPT ![s] = Append(@, <<t, handles[t].text>>)]
    /\ handles' = SetTask(t, [handles[t] EXCEPT !.pc = "ret"])
    /\ UNCHANGED <<input, verbose, mainPc, nread, joined, permits>>

\* Mutant of Return: the permit is not given back when the task ends.
ReturnKeepsPermit(t) ==
    LET task == handles[t] IN
    /\ task.pc = "ret"
    /\ handles' = SetTask(t, [task EXCEPT
            !.pc = "done",
            !.out = IF task.sel = "live"
                    THEN format_success(UrlOf(task.scheme, task.domain), "200", verbose)
                    ELSE format_failure(task.domain, verbose)])
    /\ UNCHANGED <<input, verbose, mainPc, nread, joined, permits, sink, disk, log>>

\* check_domain prints its status line and returns; _permit is dropped.
Return(t) ==
    LET task == handles[t] IN
    /\ task.pc = "ret"
    /\ handles' = SetTask(t, [task EXCEPT
            !.pc = "done",
            !.held = 0,
            !.out = IF task.sel = "live"
                    THEN format_success(UrlOf(task.scheme, task.domain), "200", verbose)
                    ELSE format_failure(task.domain, verbose)])
    /\ permits' = permits + task.held
    /\ UNCHANGED <<input, verbose, mainPc, nread, joined, sink, disk, log>>

\* The tokio runtime runs main and every spawned task, one step at a time.
Next ==
    \/ MainStart
    \/ MainOpenFail
    \/ MainRead
    \/ MainLoopEnd
    \/ MainJoin
    \/ MainComplete
    \/ \E t \in Tasks : Acquire(t)
    \/ \E t \in Tasks : test_url(t)
    \/ \E t \in Tasks : LazyCreate(t)
    \/ \E t \in Tasks : LazyCreateFail(t)
    \/ \E t \in Tasks : LazyPoisoned(t)
    \/ \E t \in Tasks : Lock(t)
    \/ \E t \in Tasks : Writeln(t)
    \/ \E t \in Tasks : Flush(t)
    \/ \E t \in Tasks : Return(t)

Spec == Init /\ [][Next]_vars

\* The runtime keeps polling main and the spawned tasks: while some step of
\* the program can be taken, one is; a request always resolves (the timeout
\* bounds it).
FairInit ==
    /\ input \in InputFiles
    /\ verbose = FALSE
    /\ Start

FairSpec == FairInit /\ [][Next]_vars /\ WF_vars(Next)

\* ================================================================ claims
\* The tasks that hold a permit.
Holders == {t \in Tasks : handles[t].pc \in Holding}

\* The write_to_file calls of task t on sink s that returned.
Records(s, t) == {i \in 1..Len(log[s]) : log[s][i][1] = t}

Succeeded(task) == \E i \in 1..Len(task.probes) : task.probes[i].ok

\* C1: in every reachable state the number of tasks between semaphore acquire
\* and the end of check_domain is at most MAX_CONCURRENT_REQUESTS.
C1_AtMostCapHolders == Cardinality(Holders) <= MAX_CONCURRENT_REQUESTS

\* C1 witness: every permit is taken while another task waits for one.
C1_Witness ==
    /\ Cardinality(Holders) = MAX_CONCURRENT_REQUESTS
    /\ \E t \in Tasks : handles[t].pc = "acquire"

\* C2: a check that ran to completion is recorded exactly once in total: once
\* in the live sink if a probe succeeded, once in the dead sink if none did;
\* and no check, finished or not, is ever recorded twice or in both sinks.
C2_RecordedExactlyOnce ==
    \A t \in Tasks :
        /\ Cardinality(Records("live", t)) + Cardinality(Records("dead", t)) <= 1
        /\ handles[t].pc = "done" =>
              IF Succeeded(handles[t])
              THEN Cardinality(Records("live", t)) = 1 /\ Records("dead", t) = {}
              ELSE Cardinality(Records("dead", t)) = 1 /\ Records("live", t) = {}

\* C2 witness: a finished run with one live and one dead verdict.
C2_Witness ==
    /\ mainPc = "completed"
    /\ \E t, u \in Tasks :
          /\ handles[t].pc = "done" /\ Succeeded(handles[t])
          /\ handles[u].pc = "done" /\ ~Succeeded(handles[u])

\* A line that decodes and is not empty after trimming: some character of it
\* is not white space.
NonBlank(line) == line.ok /\ \E i \in 1..Len(line.text) : line.text[i] /= SP

NonBlankLines == {i \in 1..Len(input) : NonBlank(input[i])}

\* C3: a line that is empty after trimming launches no task and produces no
\* line in either sink and no status line; when the run completes, the two
\* sinks together hold as many lines as the input has non-blank, decodable
\* lines.
C3_BlankLinesSkipped ==
    /\ \A t \in Tasks : NonBlank(input[handles[t].src])
    /\ mainPc = "completed" =>
          Len(log["live"]) + Len(log["dead"]) = Cardinality(NonBlankLines)

\* The host as the specification derives it from a URL: a leading http:// or
\* https:// is stripped, then the text before the first '/' is taken.
StripLeadingScheme(url) ==
    IF StartsWith(url, HTTP_PREFIX) THEN SubSeq(url, Len(HTTP_PREFIX) + 1, Len(url))
    ELSE IF StartsWith(url, HTTPS_PREFIX) THEN SubSeq(url, Len(HTTPS_PREFIX) + 1, Len(url))
    ELSE url

BareHost(url) ==
    LET rest == StripLeadingScheme(url)
        cut == {i \in 1..Len(rest) : rest[i] = SLASH}
    IN  IF cut = {} THEN rest
        ELSE SubSeq(rest, 1, (CHOOSE i \in cut : \A j \in cut : i <= j) - 1)

\* The texts task t has on record in sink s.
Texts(s, t) == {log[s][i][2] : i \in Records(s, t)}

HttpOk(task) == Len(task.probes) >= 1 /\ task.probes[1].ok
HttpsOk(task) == Len(task.probes) = 2 /\ task.probes[2].ok
BothFailed(task) == Len(task.probes) = 2 /\ ~task.probes[1].ok /\ ~task.probes[2].ok

\* C4 (order): the probes of one check are HTTP, then HTTPS only after the HTTP
\* probe resolved as a failure; after a successful HTTP probe no HTTPS probe
\* is ever in flight.
C4_ProbeOrder ==
    \A t \in Tasks :
        LET task == handles[t]
            p == task.probes
        IN  /\ Len(p) <= 2
            /\ Len(p) >= 1 => p[1].scheme = "http"
            /\ Len(p) = 2 => p[2].scheme = "https" /\ ~p[1].ok
            /\ (task.pc = "probe" /\ task.scheme = "http") => p = <<>>
            /\ (task.pc = "probe" /\ task.scheme = "https") => (Len(p) = 1 /\ ~p[1].ok)
            /\ task.pc = "acquire" => p = <<>>

\* C4: within one check the HTTP probe is issued and resolved before any HTTPS
\* probe, a successful HTTP probe means HTTPS is never probed, and the live
\* sink then receives the bare host of the HTTP URL.
C4_HttpFirstThenHost ==
    /\ C4_ProbeOrder
    /\ \A t \in Tasks :
          (handles[t].pc = "done" /\ HttpOk(handles[t])) =>
              Texts("live", t) = {BareHost(http_url(handles[t].domain))}

\* C5: a check whose HTTP probe failed and whose HTTPS probe returned 2xx has
\* exactly one line in the live sink, the bare host of the HTTPS URL, and
\* nothing in the dead sink.
C5_HttpsFallbackHost ==
    \A t \in Tasks :
        HttpsOk(handles[t]) =>
            /\ Records("dead", t) = {}
            /\ Cardinality(Records("live", t)) <= 1
            /\ handles[t].pc = "done" =>
                  /\ Cardinality(Records("live", t)) = 1
                  /\ Texts("live", t) = {BareHost(https_url(handles[t].domain))}

\* d is raw without its leading and trailing white space, and nothing else
\* is removed or changed.
IsTrimOf(d, raw) ==
    \E i, j \in 0..Len(raw) :
        /\ i + j <= Len(raw)
        /\ d = SubSeq(raw, i + 1, Len(raw) - j)
        /\ \A k \in 1..i : raw[k] = SP
        /\ \A k \in (Len(raw) - j + 1)..Len(raw) : raw[k] = SP
        /\ d /= <<>> => (d[1] /= SP /\ d[Len(d)] /= SP)

\* C6: a check whose HTTP and HTTPS probes both failed has exactly one line in
\* the dead sink, the trimmed input line unaltered, and nothing in the live
\* sink.
C6_DeadGetsTrimmedLine ==
    \A t \in Tasks :
        BothFailed(handles[t]) =>
            /\ Records("live", t) = {}
            /\ Cardinality(Records("dead", t)) <= 1
            /\ \A d \in Texts("dead", t) : IsTrimOf(d, input[handles[t].src].text)
            /\ handles[t].pc = "done" => Cardinality(Records("dead", t)) = 1

\* C6 witness: a finished check of the line with white space around a host
\* and a path, both probes failed.
C6_Witness ==
    \E t \in Tasks :
        /\ handles[t].pc = "done"
        /\ BothFailed(handles[t])
        /\ handles[t].domain = <<"a", "/", "b">>
        /\ Len(input[handles[t].src].text) > Len(handles[t].domain)

\* The content of a file as lines: the texts before each line terminator.
RECURSIVE LinesOf(_)
LinesOf(d) ==
    IF d = <<>> THEN <<>>
    ELSE LET ends == {i \in 1..Len(d) : d[i] = NL}
             e == IF ends = {} THEN Len(d) + 1
                  ELSE CHOOSE i \in ends : \A j \in ends : i <= j
         IN  <<SubSeq(d, 1, e - 1)>> \o LinesOf(SubSeq(d, e + 1, Len(d)))

Complete(d) == d = <<>> \/ d[Len(d)] = NL

\* The tasks inside the append-then-flush sequence of sink s.
Inside(s) == {t \in Tasks : handles[t].pc \in {"write", "flush"} /\ handles[t].sel = s}

\* C7: at most one task at a time is inside the append-then-flush sequence of
\* a sink, and the file of a sink holds exactly one complete line per record
\* call that returned, in the order of the calls, with nothing left in the
\* buffer once the lock is free.
C7_AtomicWrites ==
    \A s \in Sinks :
        /\ Cardinality(Inside(s)) <= 1
        /\ Inside(s) = IF sink[s].holder = 0 THEN {} ELSE {sink[s].holder}
        /\ sink[s].holder = 0 => sink[s].buf = <<>>
        /\ sink[s].state = "open" =>
              /\ Complete(disk[s])
              /\ LinesOf(disk[s]) = [i \in 1..Len(log[s]) |-> log[s][i][2]]

\* C7 witness: a task is inside the write of a sink that already holds a line
\* while another task waits for the lock of the same sink.
C7_Witness ==
    \E s \in Sinks, t, u \in Tasks :
        /\ handles[t].pc = "flush" /\ handles[t].sel = s
        /\ handles[u].pc = "lock" /\ handles[u].sel = s
        /\ Len(log[s]) >= 1

\* C8: completion is reported only when the input is exhausted and every
\* spawned task has ended; never while a task waits, probes or writes.
C8_CompletionAfterAllTasks ==
    mainPc = "completed" =>
        /\ nread = Len(input)
        /\ joined = Len(handles)
        /\ \A t \in Tasks : handles[t].pc \in Terminal

\* C8 witness: completion reported after three tasks ended.
C8_Witness == mainPc = "completed" /\ Len(handles) >= 3

\* A task that ended without a verdict panicked at a sink whose file could
\* not be created, and holds no lock.
PanicOnlyAtFailedSink(t) ==
    handles[t].pc = "panicked" =>
        /\ handles[t].sel \in Sinks
        /\ sink[handles[t].sel].state = "poisoned"
        /\ \A s \in Sinks : sink[s].holder /= t

\* A task that ended normally has its verdict: one record and a status line.
HasVerdict(t) ==
    /\ Cardinality(Records("live", t)) + Cardinality(Records("dead", t)) = 1
    /\ handles[t].out /= <<>>

SomePanicked == \E t \in Tasks : handles[t].pc = "panicked"

C10_EveryTaskEnds ==
    <>(\/ mainPc = "aborted"
       \/ /\ mainPc = "completed"
          /\ nread = Len(input)
          /\ \A t \in Tasks :
                \/ handles[t].pc = "done" /\ HasVerdict(t)
                \/ handles[t].pc = "panicked" /\ PanicOnlyAtFailedSink(t))

\* C10 witness: completion reported after more tasks than there are permits
\* all ended with a verdict.
C10_Witness ==
    /\ mainPc = "completed"
    /\ Len(handles) > MAX_CONCURRENT_REQUESTS
    /\ \A t \in Tasks : handles[t].pc = "done" /\ HasVerdict(t)

\* The texts of the write_to_file calls on sink s that returned, in order.
Written(s) == [i \in 1..Len(log[s]) |-> log[s][i][2]]

\* C11: both sinks are created (and an older file cleared) before the first
\* task is launched: whenever a task exists, live.txt and dead.txt have
\* both been created by this run.
C11_SinksOpenedBeforeTasks ==
    handles /= <<>> => \A s \in Sinks : sink[s].state = "open"

\* C12: when the run completes, live.txt and dead.txt each hold exactly the
\* lines recorded during this run and nothing from before it, also when
\* nothing was recorded in one of them.
C12_FilesFreshAtCompletion ==
    mainPc = "completed" =>
        \A s \in Sinks : Complete(disk[s]) /\ LinesOf(disk[s]) = Written(s)

\* C13: if an output file cannot be created the process aborts before
\* scheduling: no task is launched, no probe is issued and the run does not
\* end by reporting completion.
C13_AbortOnSinkFailure ==
    (\E s \in Sinks : sink[s].state = "poisoned") =>
        /\ handles = <<>>
        /\ mainPc /= "completed"

\* The task is inside a call of test_url: its request is in flight, or it is
\* in the write_to_file(&LIVE_FILE, ..) that test_url makes before returning
\* Some(..).
InTestUrl(task) ==
    \/ task.pc = "probe"
    \/ task.pc \in {"lock", "write", "flush"} /\ task.sel = "live"

\* The probe of the candidate URL the task is at resolved with a 2xx status.
CurrentOk(task) ==
    /\ task.probes /= <<>>
    /\ task.probes[Len(task.probes)].scheme = task.scheme
    /\ task.probes[Len(task.probes)].ok

\* C14 as stated: a call of the URL prober writes to neither sink, whatever
\* its outcome: a task inside test_url is never inside the append-then-flush
\* sequence of a sink.
C14_ProberWritesNothing ==
    \A t \in Tasks, s \in Sinks : InTestUrl(handles[t]) => sink[s].holder /= t

\* C14 as amended: the URL prober never writes to the dead sink, and writes
\* to the live sink only in a call whose response was 2xx, one line; a call
\* that returns no result leaves both sinks unchanged; the dead sink is
\* written only by the domain checker after both calls returned no result.
C14_ProberWritesLiveOnly ==
    \A t \in Tasks :
        LET task == handles[t] IN
        /\ InTestUrl(task) => sink["dead"].holder /= t
        /\ (InTestUrl(task) /\ sink["live"].holder = t) => CurrentOk(task)
        /\ ~Succeeded(task) => (Records("live", t) = {} /\ sink["live"].holder /= t)
        /\ Cardinality(Records("live", t)) <= 1
        /\ (sink["dead"].holder = t \/ Records("dead", t) /= {}) =>
              (BothFailed(task) /\ ~InTestUrl(task))

\* C14 witness: a task inside test_url holds the lock of the live sink with
\* its text in the buffer, while the dead sink holds a line of another task.
C14_Witness ==
    \E t \in Tasks :
        /\ InTestUrl(handles[t])
        /\ handles[t].pc = "flush"
        /\ sink["live"].holder = t
        /\ Len(log["dead"]) >= 1

\* C15: the URL prober never raises to its caller: no task ends by a panic
\* that arose inside test_url, and after a call that returned no result the
\* caller goes on, to the HTTPS probe or to the dead sink.
C15_ProberNeverRaises ==
    \A t \in Tasks :
        LET task == handles[t]
            n == Len(task.probes)
        IN  /\ task.pc = "panicked" => task.sel /= "live"
            /\ (n >= 1 /\ ~task.probes[n].ok) =>
                  \/ n = 1 /\ task.pc = "probe" /\ task.scheme = "https"
                  \/ n = 2 /\ task.sel = "dead"

\* The locks task t holds.
LocksHeld(t) == {s \in Sinks : sink[s].holder = t}

\* C16: the two sinks are independent: no task holds one lock while it
\* acquires or holds the other, and a task that waits for the lock of a sink
\* that is open and free can take it, whoever holds the other sink.
C16_SinksIndependent ==
    \A t \in Tasks :
        /\ Cardinality(LocksHeld(t)) <= 1
        /\ handles[t].pc = "lock" => LocksHeld(t) = {}
        /\ ( /\ handles[t].pc = "lock"
             /\ sink[handles[t].sel].state = "open"
             /\ sink[handles[t].sel].holder = 0 ) => ENABLED Lock(t)

\* C16 witness: a task is about to take the free lock of one sink while
\* another task is inside the write of the other sink.
C16_Witness ==
    \E t, u \in Tasks, s, o \in Sinks :
        /\ s /= o
        /\ handles[t].pc = "lock" /\ handles[t].sel = s
        /\ sink[s].state = "open" /\ sink[s].holder = 0
        /\ sink[o].holder = u

\* C17: the text recorded in the live sink is the succeeding URL with only a
\* leading http:// or https:// stripped, up to the first '/'; a scheme string
\* elsewhere in the URL is not removed.
C17_LeadingSchemeOnly ==
    \A t \in Tasks :
        \A d \in Texts("live", t) :
            d = BareHost(UrlOf(handles[t].scheme, handles[t].domain))

\* C18: a task issues its probes and makes its sink writes only while it owns
\* a permit, owns none before its acquire returned, and main launches the
\* next task whether or not a permit is free.
C18_WorkUnderPermit ==
    /\ \A t \in Tasks :
          /\ handles[t].pc \in {"probe", "lock", "write", "flush"} => handles[t].held = 1
          /\ LocksHeld(t) /= {} => handles[t].held = 1
          /\ handles[t].pc = "acquire" =>
                /\ handles[t].held = 0
                /\ handles[t].probes = <<>>
                /\ Records("live", t) = {} /\ Records("dead", t) = {}
    /\ (mainPc = "read" /\ nread < Len(input)) => ENABLED MainRead

\* C18 witness: main is about to launch a task for a decodable line while no
\* permit is free.
C18_Witness ==
    /\ mainPc = "read"
    /\ nread < Len(input)
    /\ input[nread + 1].ok
    /\ permits = 0

\* The permits owned by the first n tasks.
RECURSIVE HeldBy(_)
HeldBy(n) == IF n = 0 THEN 0 ELSE handles[n].held + HeldBy(n - 1)

\* C19: free permits plus permits owned by tasks equal the cap, a task owns
\* at most one, a task that ended (done or panicked) owns none, and when the
\* run completes every permit is free.
C19_PermitsConserved ==
    /\ permits + HeldBy(Len(handles)) = MAX_CONCURRENT_REQUESTS
    /\ \A t \in Tasks :
          /\ handles[t].held <= 1
          /\ handles[t].pc \in Terminal => handles[t].held = 0
    /\ mainPc = "completed" => permits = MAX_CONCURRENT_REQUESTS

\* C19 witness: a finished run of three tasks, one panicked and one done, with
\* every permit free again.
C19_Witness ==
    /\ mainPc = "completed"
    /\ Len(handles) >= 3
    /\ permits = MAX_CONCURRENT_REQUESTS
    /\ \E t, u \in Tasks : handles[t].pc = "panicked" /\ handles[u].pc = "done"
====
